---- MODULE Spec2Model ----
(***************************************************************************)
(* Model of ExtractHar (src/src/main.rs): the extraction loop of main that *)
(* walks the entries of a loaded .har archive, keeps those whose mimeType  *)
(* is a key of get_mimetypes(), derives the output path from the request   *)
(* URL and the --output_domain / --output_path flags, base64-decodes the   *)
(* response text and writes the bytes under the output folder.             *)
(*                                                                         *)
(* Text that the code inspects character by character (URL host, URL path  *)
(* segments, extensions, base64 text) is a sequence of one-character       *)
(* strings.  Mime types are only compared for equality and stay strings.   *)
(* A PathBuf is the sequence of its components; every path is kept         *)
(* relative to `folder`, the output root, which line 107-111 has created.  *)
(***************************************************************************)
EXTENDS Integers, Sequences, FiniteSets, TLC

VARIABLES
    entries,          \* har.log.entries, as deserialized at line 114
    output_domain,    \* Cli.output_domain.is_some()
    output_path,      \* Cli.output_path.is_some()
    pc,               \* "settings" | "extract" | "finished" | "exit1" | "panicked"
    iter,             \* position of the for loop's iterator (entries consumed)
    count_total,      \* line 146
    count_extracted,  \* line 147
    dirs,             \* directories that exist under folder (locations)
    files,            \* files under/around folder: location -> bytes
    error             \* why the process stopped: "none" or the failing call

vars == <<entries, output_domain, output_path, pc, iter, count_total,
          count_extracted, dirs, files, error>>

----------------------------------------------------------------------------
(* Bounds *)

\* Largest number of entries of an archive.
MaxEntries == 3

----------------------------------------------------------------------------
(* Text helpers *)

\* str::ends_with
EndsWith(s, x) ==
    /\ Len(x) <= Len(s)
    /\ SubSeq(s, Len(s) - Len(x) + 1, Len(s)) = x

Ext_webp == <<".", "w", "e", "b", "p">>
Ext_jpeg == <<".", "j", "p", "e", "g">>
Ext_jpg  == <<".", "j", "p", "g">>
Ext_png  == <<".", "p", "n", "g">>
Ext_svg  == <<".", "s", "v", "g">>

----------------------------------------------------------------------------
(* get_mimetypes: the insertions in source order, folded as HashMap::insert *)
(* does (an insert of a present key replaces its value).                    *)

MimeInserts ==
    << <<"image/webp", Ext_webp>>,
       <<"image/jpeg", Ext_jpeg>>,
       <<"image/jpeg", Ext_jpg>>,
       <<"image/png", Ext_png>>,
       <<"image/svg+xml", Ext_svg>> >>

\* HashMap::insert(k, v) on map m
MapInsert_keepFirst(m, k, v) ==
    IF k \in DOMAIN m THEN m
    ELSE [x \in DOMAIN m \cup {k} |-> IF x = k THEN v ELSE m[x]]

MapInsert(m, k, v) ==
    [x \in DOMAIN m \cup {k} |-> IF x = k THEN v ELSE m[x]]

RECURSIVE InsertAll(_, _)
InsertAll(m, ins) ==
    IF ins = <<>> THEN m
    ELSE InsertAll(MapInsert(m, Head(ins)[1], Head(ins)[2]), Tail(ins))

EmptyMap == [x \in {} |-> <<>>]

get_mimetypes == InsertAll(EmptyMap, MimeInserts)

\* line 144
mime_types == get_mimetypes

\* line 145: mime_types.values(); only membership is ever asked of it
mime_type_extensions == {mime_types[k] : k \in DOMAIN mime_types}

----------------------------------------------------------------------------
(* Engine::decode(&general_purpose::STANDARD, text), line 191: the standard *)
(* alphabet, canonical padding required, no non-zero trailing bits.         *)

B64Alphabet ==
    <<
           "A", "B", "C", "D", "E", "F", "G", "H", "I", "J", "K", "L", "M", "N", "O", "P",
           "Q", "R", "S", "T", "U", "V", "W", "X", "Y", "Z", "a", "b", "c", "d", "e", "f",
           "g", "h", "i", "j", "k", "l", "m", "n", "o", "p", "q", "r", "s", "t", "u", "v",
           "w", "x", "y", "z", "0", "1", "2", "3", "4", "5", "6", "7", "8", "9", "+", "/" >>

B64Chars == {B64Alphabet[i] : i \in DOMAIN B64Alphabet}

\* the 6-bit value of an alphabet character
B64Value(c) == (CHOOSE i \in DOMAIN B64Alphabet : B64Alphabet[i] = c) - 1

DecodeErr == [ok |-> FALSE, bytes |-> <<>>]

\* one group of four characters, `last` when it is the final group
DecodeQuad(q, last) ==
    LET a == q[1]  b == q[2]  c == q[3]  d == q[4]
    IN  IF a \notin B64Chars \/ b \notin B64Chars THEN DecodeErr
        ELSE IF c = "=" /\ d = "=" THEN
            IF last /\ B64Value(b) % 16 = 0
            THEN [ok |-> TRUE,
                  bytes |-> << B64Value(a) * 4 + B64Value(b) \div 16 >>]
            ELSE DecodeErr
        ELSE IF c \notin B64Chars THEN DecodeErr
        ELSE IF d = "=" THEN
            IF last /\ B64Value(c) % 4 = 0
            THEN [ok |-> TRUE,
                  bytes |-> << B64Value(a) * 4 + B64Value(b) \div 16,
                               (B64Value(b) % 16) * 16 + B64Value(c) \div 4 >>]
            ELSE DecodeErr
        ELSE IF d \notin B64Chars THEN DecodeErr
        ELSE [ok |-> TRUE,
              bytes |-> << B64Value(a) * 4 + B64Value(b) \div 16,
                           (B64Value(b) % 16) * 16 + B64Value(c) \div 4,
                           (B64Value(c) % 4) * 64 + B64Value(d) >>]

RECURSIVE DecodeQuads(_)
DecodeQuads(t) ==
    IF t = <<>> THEN [ok |-> TRUE, bytes |-> <<>>]
    ELSE LET q == DecodeQuad(SubSeq(t, 1, 4), Len(t) = 4)
             r == DecodeQuads(SubSeq(t, 5, Len(t)))
         IN  IF q.ok /\ r.ok
             THEN [ok |-> TRUE, bytes |-> q.bytes \o r.bytes]
             ELSE DecodeErr

Base64Decode(t) ==
    IF Len(t) % 4 # 0 THEN DecodeErr ELSE DecodeQuads(t)

----------------------------------------------------------------------------
(* Archive input: HarLogEntry, lines 22-54.  request.url is a parsed Url:   *)
(* host_str() and path_segments() are Options; the segments come from      *)
(* splitting the path on "/" and so never hold a "/".                       *)

None == [some |-> FALSE, val |-> <<>>]
Some(v) == [some |-> TRUE, val |-> v]

HarLogEntry(host, segs, mime, text) ==
    [url |-> [host |-> host, segs |-> segs], mime_type |-> mime, text |-> text]

----------------------------------------------------------------------------
(* Output path, lines 153-186 *)

\* line 156: every segment but the last
UrlPath(url_segments) == SubSeq(url_segments, 1, Len(url_segments) - 1)

\* lines 157-163, with the has-extension test against the entry's own ext
UrlFilename_ownExt(url_segments, ext) ==
    LET last == url_segments[Len(url_segments)]
    IN  IF EndsWith(last, ext) THEN last ELSE last \o ext

\* lines 157-163
UrlFilename(url_segments, ext) ==
    LET last == url_segments[Len(url_segments)]
    IN  IF \E x \in mime_type_extensions : EndsWith(last, x)
        THEN last
        ELSE last \o ext

\* Path::new(x) iterated by PathBuf::extend: the components of a text
\* without "/" (an empty text has none)
Components(x) == IF x = <<>> THEN <<>> ELSE <<x>>

\* lines 166-168, 174-176: url_path.into_iter().for_each(|x| result.extend(..))
RECURSIVE ExtendAll(_, _)
ExtendAll(result, url_path) ==
    IF url_path = <<>> THEN result
    ELSE ExtendAll(result \o Components(Head(url_path)), Tail(url_path))

\* lines 164-185 with the URL directories before the host
SubFolder_pathFirst(url_host, url_path, od, op) ==
    IF od /\ op THEN ExtendAll(<<>>, url_path) \o <<url_host>>
    ELSE IF od THEN <<url_host>>
    ELSE IF op THEN ExtendAll(<<>>, url_path)
    ELSE <<>>

\* lines 164-185: sub_folder, relative to folder
SubFolder(url_host, url_path, od, op) ==
    IF od /\ op THEN ExtendAll(<<url_host>>, url_path)
    ELSE IF od THEN <<url_host>>
    ELSE IF op THEN ExtendAll(<<>>, url_path)
    ELSE <<>>

\* line 186
OutFile(sub_folder, url_filename) == sub_folder \o <<url_filename>>

----------------------------------------------------------------------------
(* Filesystem, as the calls of lines 187-188 and 197 see it.  A location is *)
(* a path resolved against folder: "." is dropped and ".." steps to the     *)
(* parent, so a location that starts with ".." lies outside folder.         *)

RECURSIVE Locate(_, _)
Locate(loc, p) ==
    IF p = <<>> THEN loc
    ELSE LET c == Head(p)
         IN  IF c = <<".">> THEN Locate(loc, Tail(p))
             ELSE IF c = <<".", ".">> /\ loc # <<>> /\ loc[Len(loc)] # <<".", ".">>
                  THEN Locate(SubSeq(loc, 1, Len(loc) - 1), Tail(p))
             ELSE Locate(Append(loc, c), Tail(p))

\* Path::is_dir, line 187: folder and its ancestors exist
IsDir(p, d) ==
    LET loc == Locate(<<>>, p)
    IN  loc \in d \/ \A i \in DOMAIN loc : loc[i] = <<".", ".">>

\* fs::create_dir_all, line 188: every missing ancestor is made; an ancestor
\* that is a file is an error
CreateDirAll(p, d, f) ==
    LET chain == {Locate(<<>>, SubSeq(p, 1, k)) : k \in 0..Len(p)}
    IN  IF chain \cap DOMAIN f # {}
        THEN [ok |-> FALSE, dirs |-> d]
        ELSE [ok |-> TRUE, dirs |-> d \cup chain]

\* File::create_new: an existing file is an error
FileCreateWrite_createNew(p, b, d, f) ==
    LET loc == Locate(<<>>, p)
    IN  IF IsDir(p, d) \/ loc \in DOMAIN f
        THEN [ok |-> FALSE, files |-> f]
        ELSE [ok |-> TRUE,
              files |-> [l \in DOMAIN f \cup {loc} |->
                            IF l = loc THEN b ELSE f[l]]]

\* File::create(out_file).write_all(&b), line 197: creates or truncates
FileCreateWrite(p, b, d, f) ==
    LET loc == Locate(<<>>, p)
    IN  IF IsDir(p, d)
        THEN [ok |-> FALSE, files |-> f]
        ELSE [ok |-> TRUE,
              files |-> [l \in DOMAIN f \cup {loc} |->
                            IF l = loc THEN b ELSE f[l]]]

----------------------------------------------------------------------------
(* One iteration of the loop body for an entry whose mime type is in the    *)
(* registry, lines 153-197.  Every unwrap() that fails panics, leaving what *)
(* the statements before it have done.                                      *)

LoopResult(err, d, f) == [error |-> err, dirs |-> d, files |-> f]

\* the body with the payload decoded before the directory is made
ExtractBody_decodeFirst(e, od, op, d, f) ==
    IF ~e.url.host.some THEN LoopResult("host_str", d, f)
    ELSE IF ~e.url.segs.some THEN LoopResult("path_segments", d, f)
    ELSE
      LET ext == mime_types[e.mime_type]
          url_segments == e.url.segs.val
          url_filename == UrlFilename(url_segments, ext)
          sub_folder == SubFolder(e.url.host.val, UrlPath(url_segments), od, op)
          out_file == OutFile(sub_folder, url_filename)
          b == Base64Decode(e.text)
          mk == IF IsDir(sub_folder, d)
                THEN [ok |-> TRUE, dirs |-> d]
                ELSE CreateDirAll(sub_folder, d, f)
          wr == FileCreateWrite(out_file, b.bytes, mk.dirs, f)
      IN  IF ~b.ok THEN LoopResult("decode", d, f)
          ELSE IF ~mk.ok THEN LoopResult("create_dir_all", d, f)
          ELSE IF ~wr.ok THEN LoopResult("File::create", mk.dirs, f)
          ELSE LoopResult("none", mk.dirs, wr.files)

\* the body with a failed decode skipping the entry instead of panicking
ExtractBody_skipBadPayload(e, od, op, d, f) ==
    IF ~e.url.host.some THEN LoopResult("host_str", d, f)
    ELSE IF ~e.url.segs.some THEN LoopResult("path_segments", d, f)
    ELSE
      LET ext == mime_types[e.mime_type]
          url_segments == e.url.segs.val
          url_filename == UrlFilename(url_segments, ext)
          sub_folder == SubFolder(e.url.host.val, UrlPath(url_segments), od, op)
          out_file == OutFile(sub_folder, url_filename)
          mk == IF IsDir(sub_folder, d)
                THEN [ok |-> TRUE, dirs |-> d]
                ELSE CreateDirAll(sub_folder, d, f)
          b == Base64Decode(e.text)
          wr == FileCreateWrite(out_file, b.bytes, mk.dirs, f)
      IN  IF ~mk.ok THEN LoopResult("create_dir_all", d, f)
          ELSE IF ~b.ok THEN LoopResult("none", mk.dirs, f)
          ELSE IF ~wr.ok THEN LoopResult("File::create", mk.dirs, f)
          ELSE LoopResult("none", mk.dirs, wr.files)

\* lines 153-197
ExtractBody(e, od, op, d, f) ==
    IF ~e.url.host.some THEN LoopResult("host_str", d, f)
    ELSE IF ~e.url.segs.some THEN LoopResult("path_segments", d, f)
    ELSE
      LET ext == mime_types[e.mime_type]
          url_segments == e.url.segs.val
          url_filename == UrlFilename(url_segments, ext)
          sub_folder == SubFolder(e.url.host.val, UrlPath(url_segments), od, op)
          out_file == OutFile(sub_folder, url_filename)
          mk == IF IsDir(sub_folder, d)
                THEN [ok |-> TRUE, dirs |-> d]
                ELSE CreateDirAll(sub_folder, d, f)
          b == Base64Decode(e.text)
          wr == FileCreateWrite(out_file, b.bytes, mk.dirs, f)
      IN  IF ~mk.ok THEN LoopResult("create_dir_all", d, f)
          ELSE IF ~b.ok THEN LoopResult("decode", mk.dirs, f)
          ELSE IF ~wr.ok THEN LoopResult("File::create", mk.dirs, f)
          ELSE LoopResult("none", mk.dirs, wr.files)

\* the tally with every entry counted as extracted
Tally_countAll(total, extracted, hit) ==
    [total |-> total + 1, extracted |-> extracted + 1]

\* lines 149 and 152: count_total += 1; count_extracted += 1 on a registry hit
Tally(total, extracted, hit) ==
    [total |-> total + 1,
     extracted |-> IF hit THEN extracted + 1 ELSE extracted]

\* line 151: mime_types.get(mime_type.as_str()) is Some
Extractable(mime_type) == mime_type \in DOMAIN mime_types

\* no flag combination is rejected
DomainMissing_never(od, op) == FALSE

\* the test made on --output_path instead of --output_domain
DomainMissing_wrongFlag(od, op) == ~(~od /\ ~op) /\ ~op

\* lines 118-125: a flag is given and --output_domain is not
DomainMissing(od, op) == ~(~od /\ ~op) /\ ~od

----------------------------------------------------------------------------
(* Inputs: the archives and flag settings the runs are checked over         *)

Host_img == <<"i", "m", "g", ".", "e", "x", "a", "m", "p", "l", "e", ".", "c", "o", "m">>
Host_dotdot == <<".", ".">>
Seg_a == <<"a">>
Seg_b == <<"b">>
Seg_x == <<"x">>
Seg_empty == <<>>
Seg_photo == <<"p", "h", "o", "t", "o">>
Seg_photo_jpeg == <<"p", "h", "o", "t", "o", ".", "j", "p", "e", "g">>
Seg_logo_png == <<"l", "o", "g", "o", ".", "p", "n", "g">>

Text_A == <<"Q", "Q", "=", "=">>
Text_B == <<"Q", "g", "=", "=">>
Text_AB == <<"Q", "U", "I", "=">>
Text_empty == <<>>
Text_bad == <<"Q", "!", "=", "=">>
Text_html == <<"<", "p", ">">>

\* https://img.example.com/a/b/photo
E_photo == HarLogEntry(Some(Host_img), Some(<<Seg_a, Seg_b, Seg_photo>>),
                       "image/jpeg", Text_A)
\* https://img.example.com/logo.png
E_logo == HarLogEntry(Some(Host_img), Some(<<Seg_logo_png>>),
                      "image/png", Text_B)
\* the same URL served as image/jpeg with another body
E_logo_jpeg == HarLogEntry(Some(Host_img), Some(<<Seg_logo_png>>),
                           "image/jpeg", Text_AB)
\* https://img.example.com/a//photo.jpeg with an empty body
E_photo_jpeg == HarLogEntry(Some(Host_img),
                            Some(<<Seg_a, Seg_empty, Seg_photo_jpeg>>),
                            "image/jpeg", Text_empty)
\* http://../logo.png
E_dotdot == HarLogEntry(Some(Host_dotdot), Some(<<Seg_logo_png>>),
                        "image/png", Text_A)
\* data:image/png;base64,... : no host, no path segments
E_nohost == HarLogEntry(None, None, "image/png", Text_A)
\* a page, whose text is not base64
E_html == HarLogEntry(Some(Host_img), Some(<<Seg_a, Seg_b, Seg_photo>>),
                      "text/html", Text_html)
\* https://img.example.com/a/b/photo with a body that is not base64
E_bad == HarLogEntry(Some(Host_img), Some(<<Seg_a, Seg_b, Seg_photo>>),
                     "image/png", Text_bad)
\* https://img.example.com/
E_root == HarLogEntry(Some(Host_img), Some(<<Seg_empty>>),
                      "image/webp", Text_AB)
\* https://img.example.com/logo.png/x
E_under_logo == HarLogEntry(Some(Host_img), Some(<<Seg_logo_png, Seg_x>>),
                            "image/svg+xml", Text_B)

Entries == {E_photo, E_logo, E_logo_jpeg, E_photo_jpeg, E_dotdot, E_nohost,
            E_html, E_bad, E_root, E_under_logo}

Archives == UNION {[1..n -> Entries] : n \in 0..MaxEntries}

----------------------------------------------------------------------------
(* The run of main from line 117 on *)

Init ==
    /\ entries \in Archives
    /\ output_domain \in BOOLEAN
    /\ output_path \in BOOLEAN
    /\ pc = "settings"
    /\ iter = 0
    /\ count_total = 0
    /\ count_extracted = 0
    /\ dirs = {<<>>}
    /\ files = [l \in {} |-> <<>>]
    /\ error = "none"

\* lines 117-143, the flags accepted
SettingsAccepted ==
    /\ pc = "settings"
    /\ ~DomainMissing(output_domain, output_path)
    /\ pc' = "extract"
    /\ UNCHANGED <<entries, output_domain, output_path, iter, count_total,
                   count_extracted, dirs, files, error>>

\* lines 123-125: pexit!("--output_domain is required in this context")
SettingsRejected ==
    /\ pc = "settings"
    /\ DomainMissing(output_domain, output_path)
    /\ pc' = "exit1"
    /\ error' = "output_domain required"
    /\ UNCHANGED <<entries, output_domain, output_path, iter, count_total,
                   count_extracted, dirs, files>>

\* lines 148-151, 198: an entry whose mime type is not in the registry
SkipEntry ==
    /\ pc = "extract"
    /\ iter < Len(entries)
    /\ ~Extractable(entries[iter + 1].mime_type)
    /\ iter' = iter + 1
    /\ count_total' = Tally(count_total, count_extracted, FALSE).total
    /\ count_extracted' = Tally(count_total, count_extracted, FALSE).extracted
    /\ UNCHANGED <<entries, output_domain, output_path, pc, dirs, files,
                   error>>

\* lines 148-198: an entry is extracted
ExtractEntry ==
    /\ pc = "extract"
    /\ iter < Len(entries)
    /\ Extractable(entries[iter + 1].mime_type)
    /\ LET r == ExtractBody(entries[iter + 1], output_domain, output_path,
                            dirs, files)
       IN  /\ r.error = "none"
           /\ dirs' = r.dirs
           /\ files' = r.files
    /\ iter' = iter + 1
    /\ count_total' = Tally(count_total, count_extracted, TRUE).total
    /\ count_extracted' = Tally(count_total, count_extracted, TRUE).extracted
    /\ UNCHANGED <<entries, output_domain, output_path, pc, error>>

\* lines 148-197: an unwrap() of the body panics
PanicEntry ==
    /\ pc = "extract"
    /\ iter < Len(entries)
    /\ Extractable(entries[iter + 1].mime_type)
    /\ LET r == ExtractBody(entries[iter + 1], output_domain, output_path,
                            dirs, files)
       IN  /\ r.error # "none"
           /\ dirs' = r.dirs
           /\ files' = r.files
           /\ error' = r.error
    /\ iter' = iter + 1
    /\ count_total' = Tally(count_total, count_extracted, TRUE).total
    /\ count_extracted' = Tally(count_total, count_extracted, TRUE).extracted
    /\ pc' = "panicked"
    /\ UNCHANGED <<entries, output_domain, output_path>>

\* line 200: the loop is over, the summary is printed
Finish ==
    /\ pc = "extract"
    /\ iter = Len(entries)
    /\ pc' = "finished"
    /\ UNCHANGED <<entries, output_domain, output_path, iter, count_total,
                   count_extracted, dirs, files, error>>

Next ==
    \/ SettingsAccepted
    \/ SettingsRejected
    \/ SkipEntry
    \/ ExtractEntry
    \/ PanicEntry
    \/ Finish

Spec == Init /\ [][Next]_vars

----------------------------------------------------------------------------
(* Vocabulary of the properties *)

\* the content types the registry is documented to hold
RegistryKeys == {"image/webp", "image/jpeg", "image/png", "image/svg+xml"}

\* the entries the loop has handled completely (a panic leaves the last
\* one unfinished)
Handled == IF pc = "panicked" THEN 1..(iter - 1) ELSE 1..iter

\* the handled entries that were extracted
Extracted == {i \in Handled : entries[i].mime_type \in RegistryKeys}

Host(e) == e.url.host.val
DirSegments(e) == SubSeq(e.url.segs.val, 1, Len(e.url.segs.val) - 1)
LastSegment(e) == e.url.segs.val[Len(e.url.segs.val)]
HasUrlParts(e) == e.url.host.some /\ e.url.segs.some

\* a//b names the directory a/b: an empty segment adds no directory level
DirNames(segs) == SelectSeq(segs, LAMBDA x : x # <<>>)

\* the normalized filename of an entry
Filename(e) == UrlFilename(e.url.segs.val, mime_types[e.mime_type])

\* where the run puts an entry, as a location under folder
Destination(e) ==
    Locate(<<>>, OutFile(SubFolder(Host(e), DirSegments(e), output_domain,
                                   output_path), Filename(e)))

Bytes(e) == Base64Decode(e.text).bytes

PathOnly == output_path /\ ~output_domain

----------------------------------------------------------------------------
(* C1: extracted <= total in every state; and when a run completes without *)
(* a fatal error, total is the number of entries and extracted the number  *)
(* of entries whose content type is an exact key of the registry.          *)
C1_TallyCounts ==
    /\ count_extracted <= count_total
    /\ pc = "finished" =>
          /\ count_total = Len(entries)
          /\ count_extracted =
                Cardinality({i \in 1..Len(entries) :
                                entries[i].mime_type \in RegistryKeys})

C1_Witness ==
    /\ pc = "finished"
    /\ count_total = 3
    /\ count_extracted = 2

(* C2: an extractable entry with host H, directory segments D and          *)
(* normalized filename F is written to <root>/F with neither layout flag,  *)
(* to <root>/H/F with the domain flag only, and to <root>/H/D/F (D in URL  *)
(* order) with both flags.                                                 *)
C2_LayoutMatrix ==
    \A i \in Extracted :
        LET e == entries[i]
            expected ==
                IF ~output_domain /\ ~output_path THEN <<Filename(e)>>
                ELSE IF output_domain /\ ~output_path
                     THEN <<Host(e), Filename(e)>>
                ELSE <<Host(e)>> \o DirNames(DirSegments(e)) \o <<Filename(e)>>
        IN  ~PathOnly =>
               /\ Locate(<<>>, expected) \in DOMAIN files
               /\ i = iter => files[Locate(<<>>, expected)] = Bytes(e)

C2_Witness ==
    /\ output_domain /\ output_path
    /\ pc = "finished"
    /\ entries = <<E_photo>>
    /\ DOMAIN files = {<<Host_img, Seg_a, Seg_b, Seg_photo \o Ext_jpg>>}

(* C3: with --output_path given and --output_domain not, the run ends with *)
(* a configuration error before extraction: no entry is processed and no   *)
(* payload file is written.                                                *)
C3_PathWithoutDomainRejected ==
    (PathOnly /\ pc # "settings") =>
        /\ pc = "exit1"
        /\ error = "output_domain required"
        /\ iter = 0
        /\ count_total = 0
        /\ count_extracted = 0
        /\ DOMAIN files = {}
        /\ dirs = {<<>>}

C3_Witness ==
    /\ PathOnly
    /\ pc = "exit1"
    /\ Len(entries) = 2
    /\ entries[1] = E_logo

(* C4 as stated: with --output_path given and --output_domain not, the     *)
(* resolution is valid and an extractable entry is written to <root>/D/F   *)
(* (https://img.example.com/a/b/photo of a .jpg type to                    *)
(* <root>/a/b/photo.jpg).                                                  *)
C4_PathOnlyWritesUnderPath ==
    (/\ PathOnly
     /\ pc # "settings"
     /\ entries # <<>>
     /\ entries[1].mime_type \in RegistryKeys
     /\ HasUrlParts(entries[1])
     /\ Base64Decode(entries[1].text).ok) =>
        /\ pc # "exit1"
        /\ iter >= 1 =>
              Locate(<<>>, DirNames(DirSegments(entries[1]))
                              \o <<Filename(entries[1])>>) \in DOMAIN files

(* C4, amended: with --output_path given and --output_domain not, the run  *)
(* never gets past the flag check, so no entry is ever written to          *)
(* <root>/D/F; the path-only branch of the path composition (which would   *)
(* yield D in URL order) is never reached.                                 *)
C4_PathOnlyNeverWrites ==
    PathOnly =>
        /\ pc \in {"settings", "exit1"}
        /\ \A i \in 1..Len(entries) :
              LET e == entries[i]
              IN  (e.mime_type \in RegistryKeys /\ HasUrlParts(e)) =>
                     /\ SubFolder(Host(e), DirSegments(e), FALSE, TRUE)
                           = DirNames(DirSegments(e))
                     /\ Locate(<<>>, DirNames(DirSegments(e))
                                        \o <<Filename(e)>>) \notin DOMAIN files

C4_Witness ==
    /\ PathOnly
    /\ pc = "exit1"
    /\ entries = <<E_photo>>
    /\ <<Seg_a, Seg_b, Seg_photo \o Ext_jpg>> \notin DOMAIN files

(* C5: the output filename of an extractable entry is the final URL path   *)
(* segment unchanged when that segment already ends with any extension of  *)
(* the registry (its own type's or another's), and otherwise the final     *)
(* segment with the extension of the entry's content type appended once:   *)
(* logo.png of type image/png is written as logo.png, never logo.png.png.  *)
C5_FilenameNormalized ==
    LET name(e) ==
            IF \E x \in {Ext_webp, Ext_jpg, Ext_png, Ext_svg} :
                   EndsWith(LastSegment(e), x)
            THEN LastSegment(e)
            ELSE LastSegment(e) \o mime_types[e.mime_type]
        place(e) ==
            Locate(<<>>, SubFolder(Host(e), DirSegments(e), output_domain,
                                   output_path) \o <<name(e)>>)
    IN  /\ DOMAIN files = {place(entries[i]) : i \in Extracted}
        /\ \A l \in DOMAIN files :
              l[Len(l)] # Seg_logo_png \o Ext_png

C5_Witness ==
    /\ pc = "finished"
    /\ ~output_domain /\ ~output_path
    /\ entries = <<E_logo, E_photo, E_logo_jpeg>>
    /\ DOMAIN files = {<<Seg_logo_png>>, <<Seg_photo \o Ext_jpg>>}

(* C6: when the payload of the extractable entry at position i is not      *)
(* valid base64 the run aborts at that entry: no file is written for it or *)
(* for any later entry, and the files of the entries before it stay as     *)
(* they were (no rollback).                                                *)
C6_BadPayloadAborts ==
    [][/\ pc # "panicked"
       /\ (/\ pc = "extract"
           /\ iter < Len(entries)
           /\ entries[iter + 1].mime_type \in RegistryKeys
           /\ ~Base64Decode(entries[iter + 1].text).ok)
          => (pc' = "panicked" /\ files' = files)]_vars

C6_Witness ==
    /\ pc = "panicked"
    /\ error = "decode"
    /\ entries = <<E_logo, E_bad, E_photo>>
    /\ iter = 2
    /\ DOMAIN files = {<<Seg_logo_png>>}
    /\ files[<<Seg_logo_png>>] = <<66>>

(* C7: for every extractable entry and every layout, the resolved          *)
(* destination is a relative path with no empty segment and no parent      *)
(* directory escape: the file is always written inside the output root.    *)
C7_DestinationInsideRoot ==
    \A l \in DOMAIN files :
        \A k \in DOMAIN l : l[k] # <<>> /\ l[k] # <<".", ".">>

(* C8: when several extractable entries resolve to the same destination,   *)
(* no error is raised, each is counted as extracted, and after the run the *)
(* file holds the decoded payload of the last of them in archive order.    *)
C8_LastWriterWins ==
    /\ (/\ pc = "panicked"
        /\ HasUrlParts(entries[iter])
        /\ Destination(entries[iter]) \in DOMAIN files)
          => error = "decode"
    /\ pc = "finished" =>
          /\ count_extracted = Cardinality(Extracted)
          /\ \A i \in Extracted :
                LET same == {j \in Extracted :
                                Destination(entries[j]) = Destination(entries[i])}
                    last == CHOOSE j \in same : \A k \in same : k <= j
                IN  files[Destination(entries[i])] = Bytes(entries[last])

C8_Witness ==
    /\ pc = "finished"
    /\ entries = <<E_logo, E_logo_jpeg>>
    /\ count_extracted = 2
    /\ DOMAIN files = {<<Seg_logo_png>>}
    /\ files[<<Seg_logo_png>>] = <<65, 66>>

(* C9 as stated: the payload is decoded before any filesystem effect of   *)
(* its entry, so an entry whose payload fails to decode leaves the         *)
(* filesystem as it was before that entry (no new directory, no new file). *)
C9_DecodeFailureLeavesNoTrace ==
    [][(pc' = "panicked" /\ error' = "decode")
          => (dirs' = dirs /\ files' = files)]_vars

(* C9, amended: for each extractable entry the destination directory chain *)
(* is created, when missing, before the payload is decoded, and the file   *)
(* only after a successful decode: an entry whose payload fails to decode  *)
(* leaves no new file, and leaves its destination directory existing       *)
(* (created with its missing ancestors when it was not there).             *)
C9_DirectoryMadeBeforeDecode ==
    [][(pc' = "panicked" /\ error' = "decode") =>
          LET e == entries[iter + 1]
              sub == SubFolder(Host(e), DirSegments(e), output_domain,
                               output_path)
              chain == {Locate(<<>>, SubSeq(sub, 1, k)) : k \in 0..Len(sub)}
          IN  /\ files' = files
              /\ IsDir(sub, dirs')
              /\ dirs' = IF IsDir(sub, dirs) THEN dirs ELSE dirs \cup chain]_vars

C9_Witness ==
    /\ pc = "panicked"
    /\ error = "decode"
    /\ entries = <<E_bad>>
    /\ dirs = {<<>>, <<Host_img>>, <<Host_img, Seg_a>>,
               <<Host_img, Seg_a, Seg_b>>}
    /\ DOMAIN files = {}

(* C10: the registry holds one extension per content type and the later    *)
(* insertion wins: image/jpeg maps to .jpg only, the extensions recognized *)
(* as already present are exactly .webp, .jpg, .png and .svg, and an       *)
(* image/jpeg entry whose final segment ends in .jpeg gets .jpg appended   *)
(* (photo.jpeg becomes photo.jpeg.jpg).                                    *)
C10_JpegMapsToJpgOnly ==
    /\ DOMAIN mime_types = RegistryKeys
    /\ mime_types["image/jpeg"] = Ext_jpg
    /\ mime_type_extensions = {Ext_webp, Ext_jpg, Ext_png, Ext_svg}
    /\ \A i \in Extracted :
          LET e == entries[i]
          IN  (e.mime_type = "image/jpeg" /\ EndsWith(LastSegment(e), Ext_jpeg))
                 => /\ Destination(e) \in DOMAIN files
                    /\ Destination(e)[Len(Destination(e))]
                          = LastSegment(e) \o Ext_jpg

C10_Witness ==
    /\ pc = "finished"
    /\ ~output_domain /\ ~output_path
    /\ entries = <<E_photo_jpeg>>
    /\ DOMAIN files = {<<Seg_photo_jpeg \o Ext_jpg>>}
    /\ files[<<Seg_photo_jpeg \o Ext_jpg>>] = <<>>

====
